---------------------------- MODULE Spec2Model ----------------------------
(***************************************************************************)
(* A model of samenew's SAME / EAS signal synthesis (src/src/lib.rs).      *)
(*                                                                         *)
(* Bytes are the integers 0..255 and byte strings are tuples of them.      *)
(* Durations (f32 seconds in the source) are counted in ticks of 10        *)
(* microseconds, the coarsest unit in which 1.92 ms, 7.9 s, 8.0 s and      *)
(* 9.0 s are all whole numbers; frequencies and cycle counts are exact     *)
(* rationals <<numerator, denominator>>.  The f32 rounding of the source   *)
(* is therefore not modelled: floor(sample_rate * seconds) is the floor of *)
(* the exact product.  A sample that is the sine of a non-zero phase is    *)
(* kept symbolically as <<"sin", index, divisor, cycles>>.                 *)
(***************************************************************************)
EXTENDS Integers, Sequences, FiniteSets, TLC

VARIABLES
    pc,           \* which call of the library has returned
    codesIn,      \* the Vec passed to the builder's location_codes setter
    buildResult,  \* what that setter returned: Result<Vec<[u8; 6]>, ()>
    header,       \* the Header built
    rendered,     \* Header::render's result: Vec<AfskByte>
    warning,      \* the EasWarning: header and attention_signal
    attnArg,      \* [kind, seconds] passed to AttentionSignal::single/combined
    attnResult,   \* Option<AttentionSignal> returned
    tone,         \* MultiSineWave converted from an AttentionSignal
    byteIn,       \* the u8 converted by From<u8> for AfskByte
    afskByte,     \* its AfskByte
    bytesIn,      \* the byte string rendered on its own as an AfskBytes section
    sampleRate,   \* construct's / render's sample_rate
    message,      \* construct's message: Option<Vec<f32>>
    critical,     \* construct's critical
    sections,     \* construct's local section list
    segments,     \* the MultiSineWave of every bit of a rendered AfskBytes section
    panicked,     \* a call ended in a panic (unwrap of None, slice out of range)
    output        \* the rendered samples

vars == <<pc, codesIn, buildResult, header, rendered, warning, attnArg,
          attnResult, tone, byteIn, afskByte, bytesIn, sampleRate, message,
          critical, sections, segments, panicked, output>>

-----------------------------------------------------------------------------
(* Bounds of the model's inputs. *)

\* the longest Vec of location codes handed to the builder
MaxCodes == 32
\* the longest attention-signal duration tried, in tenths of a second
MaxTenths == 100
\* the longest message, in samples
MaxMsgLen == 2
\* the longest byte string rendered on its own as an AfskBytes section
MaxBytes == 2
\* the most location codes in the header of a constructed warning
MaxWarnCodes == 1

-----------------------------------------------------------------------------
(* Units and rationals. *)

TicksPerSecond == 100 * 1000

RECURSIVE Gcd(_, _)
Gcd(a, b) == IF b = 0 THEN a ELSE Gcd(b, a % b)

\* the rational n / d in lowest terms (n >= 0, d > 0)
Rat(n, d) == LET g == Gcd(n, d) IN <<n \div g, d \div g>>

\* (sample_rate as f32 * seconds).floor() as usize
FloorSamples(sample_rate, seconds) == (sample_rate * seconds) \div TicksPerSecond

-----------------------------------------------------------------------------
(* AFSK bits and bytes. *)

\* From<bool> for AfskBit
BitFromBool(bl) == IF bl THEN "Mark" ELSE "Space"

\* AfskByteFromU8 with the most significant bit first
ByteFromU8Flipped(byte) ==
    [bits |-> [i \in 1..8 |-> BitFromBool((byte \div (2 ^ (8 - i))) % 2 = 1)]]

\* From<u8> for AfskByte: bits[i] = ((byte >> i) & 1 == 1).into(), i = 0..7
\* (index i of the source is index i + 1 of the tuple)
AfskByteFromU8(byte) ==
    [bits |-> [i \in 1..8 |-> BitFromBool((byte \div (2 ^ (i - 1))) % 2 = 1)]]

\* b"...".map(|byte| byte.into())
AfskBytesOf(bytes) == [i \in 1..Len(bytes) |-> AfskByteFromU8(bytes[i])]

\* AfskByte::default(): every bit the #[default] Space
DefaultAfskByte == [bits |-> [i \in 1..8 |-> "Space"]]

PreambleByte == 171  \* 0xAB

\* fn preamble() -> [AfskByte; 16]
preamble == [i \in 1..16 |-> AfskByteFromU8(PreambleByte)]

NNNN == <<78, 78, 78, 78>>  \* b"NNNN"

\* fn tail() -> [AfskByte; 20]
tail ==
    LET t0 == [i \in 1..20 |-> DefaultAfskByte]
        t1 == [i \in 1..20 |-> IF i <= 16 THEN preamble[i] ELSE t0[i]]
    IN  [i \in 1..20 |-> IF i > 16 THEN AfskBytesOf(NNNN)[i - 16] ELSE t1[i]]

-----------------------------------------------------------------------------
(* Header and its rendering. *)

\* enum OriginatorCode
OriginatorCodes == {"Pep", "Civ", "Wxr", "Eas", "Ean"}

\* From<OriginatorCode> for [AfskByte; 3]: the byte string of each match arm
OriginatorBytes(org) ==
    CASE org = "Pep" -> <<80, 69, 80>>   \* b"PEP"
      [] org = "Civ" -> <<67, 73, 86>>   \* b"CIV"
      [] org = "Wxr" -> <<87, 88, 82>>   \* b"WXR"
      [] org = "Eas" -> <<87, 65, 83>>   \* b"WAS"
      [] org = "Ean" -> <<69, 65, 78>>   \* b"EAN"

\* OriginatorCode::to_afsk_bytes: self.into(), each byte mapped into an AfskByte
to_afsk_bytes(org) == AfskBytesOf(OriginatorBytes(org))

\* "Maximum of 31 codes per message."
MaxLocationCodes == 31

\* LocationCodesSetter cutting a longer list down to the maximum
LocationCodesTruncating(codes) ==
    [ok |-> TRUE,
     val |-> SubSeq(codes, 1, IF Len(codes) <= MaxLocationCodes
                              THEN Len(codes) ELSE MaxLocationCodes)]

\* the closure of #[builder(with = ...)] on location_codes: Result<Vec<[u8; 6]>, ()>
LocationCodesSetter(codes) ==
    IF Len(codes) <= MaxLocationCodes
    THEN [ok |-> TRUE, val |-> codes]
    ELSE [ok |-> FALSE, val |-> <<>>]

\* no Header: the value of `header` before a build and after a failed one
NoHeader ==
    [originator_code |-> "None", event_code |-> <<>>, location_codes |-> <<>>,
     purge_time |-> <<>>, time_of_issue |-> [ordinal |-> 0, hour |-> 0, minute |-> 0],
     callsign |-> <<>>]

\* struct Header, as Header::builder()....build() makes it
BuildHeaderValue(org, event, codes, purge, time, callsign) ==
    [originator_code |-> org, event_code |-> event, location_codes |-> codes,
     purge_time |-> purge, time_of_issue |-> time, callsign |-> callsign]

Dash == 45        \* b'-'
Backslash == 92   \* b'\\'
ZCZC == <<90, 67, 90, 67, 45>>  \* b"ZCZC-"
Plus == <<43>>    \* b"+"

\* an ASCII decimal digit
Digit(d) == 48 + d

\* chrono's "%j%H%M": day of year zero-padded to 3 digits, hour and minute to 2
FormatDateTime(time) ==
    <<Digit(time.ordinal \div 100), Digit((time.ordinal \div 10) % 10),
      Digit(time.ordinal % 10),
      Digit(time.hour \div 10), Digit(time.hour % 10),
      Digit(time.minute \div 10), Digit(time.minute % 10)>>

\* StripCallsign leaving "-" in the callsign
StripCallsignIdentity(callsign) == callsign

\* self.callsign.map(|char| if char == b'-' { b'\\' } else { char })
StripCallsign(callsign) ==
    [i \in 1..Len(callsign) |-> IF callsign[i] = Dash THEN Backslash ELSE callsign[i]]

\* the for loop of Header::render: "-" and the code, for each location code in order
RECURSIVE RenderLocationCodes(_)
RenderLocationCodes(codes) ==
    IF codes = <<>> THEN <<>>
    ELSE AfskBytesOf(<<Dash>>) \o AfskBytesOf(Head(codes))
         \o RenderLocationCodes(Tail(codes))

\* Header::render
HeaderRender(h) ==
    preamble
    \o AfskBytesOf(ZCZC)
    \o to_afsk_bytes(h.originator_code)
    \o AfskBytesOf(<<Dash>>)
    \o AfskBytesOf(h.event_code)
    \o RenderLocationCodes(h.location_codes)
    \o AfskBytesOf(Plus)
    \o AfskBytesOf(h.purge_time)
    \o AfskBytesOf(<<Dash>>)
    \o AfskBytesOf(FormatDateTime(h.time_of_issue))
    \o AfskBytesOf(<<Dash>>)
    \o AfskBytesOf(StripCallsign(h.callsign))
    \o AfskBytesOf(<<Dash>>)

-----------------------------------------------------------------------------
(* Attention signal and tones. *)

MinAttentionSeconds == 8 * TicksPerSecond   \* 8.0
NewAttentionSeconds == 9 * TicksPerSecond   \* 9.0

None == [some |-> FALSE, kind |-> "None", seconds |-> 0]

\* AttentionSingle raising a short duration to the minimum
AttentionSingleClamping(seconds) ==
    [some |-> TRUE, kind |-> "SingleTone",
     seconds |-> IF seconds < MinAttentionSeconds THEN MinAttentionSeconds ELSE seconds]

\* AttentionSignal::single
AttentionSingle(seconds) ==
    IF seconds < MinAttentionSeconds THEN None
    ELSE [some |-> TRUE, kind |-> "SingleTone", seconds |-> seconds]

\* AttentionSignal::combined
AttentionCombined(seconds) ==
    IF seconds < MinAttentionSeconds THEN None
    ELSE [some |-> TRUE, kind |-> "CombinedTone", seconds |-> seconds]

\* From<AttentionSignal> for MultiSineWave
MswFromAttention(attsig) ==
    [seconds |-> attsig.seconds,
     frequencies |-> IF attsig.kind = "SingleTone"
                     THEN <<Rat(1050, 1)>>
                     ELSE <<Rat(853, 1), Rat(960, 1)>>]

\* MultiSineWave::single_from_cycles_and_seconds: frequency = cycles / seconds
single_from_cycles_and_seconds(cycles, seconds) ==
    [seconds |-> seconds, frequencies |-> <<Rat(cycles * TicksPerSecond, seconds)>>]

BitSeconds == 192   \* 1.92 / 1000.0 seconds

\* From<AfskBit> for MultiSineWave
MswFromBit(bit) ==
    single_from_cycles_and_seconds(IF bit = "Mark" THEN 4 ELSE 3, BitSeconds)

-----------------------------------------------------------------------------
(* Sample generation. *)

\* 0.0_f32, also the sine of phase 0
ZeroSample == <<"pcm", 0>>

\* the value of a division by zero carried through sin(): not a number
NaNSample == <<"nan">>

\* let cycles = frequency * self.seconds
Cycles(frequency, seconds) ==
    Rat(frequency[1] * seconds, frequency[2] * TicksPerSecond)

\* one element of `oversampled`: the mean over the frequencies of
\* sin(2 PI * sample_index / ((samples - 1) / cycles)), with divisor = samples - 1
SampleAt(sample_index, divisor, cycles) ==
    IF divisor = 0 \/ cycles = <<>> THEN NaNSample
    ELSE IF sample_index = 0 THEN ZeroSample
    ELSE <<"sin", sample_index, divisor, cycles>>

\* the Vec `oversampled` of MultiSineWave::generate_samples, `samples` long
Oversampled(msw, samples) ==
    LET cycles == [f \in 1..Len(msw.frequencies) |->
                       Cycles(msw.frequencies[f], msw.seconds)]
    IN  [k \in 1..samples |-> SampleAt(k - 1, samples - 1, cycles)]

\* &v[..end]: a panic when end is out of range
SliceTo(v, end) ==
    IF end < 0 \/ end > Len(v)
    THEN [ok |-> FALSE, data |-> <<>>]
    ELSE [ok |-> TRUE, data |-> SubSeq(v, 1, end)]

\* generate_samples without the one sample more in `samples`
GenerateSamplesNoOversample(msw, sample_rate) ==
    LET samples == FloorSamples(sample_rate, msw.seconds)
    IN  SliceTo(Oversampled(msw, samples), samples - 1)

\* MultiSineWave::generate_samples: ok and the samples, or a panic (ok = FALSE)
generate_samples(msw, sample_rate) ==
    LET samples == FloorSamples(sample_rate, msw.seconds) + 1
    IN  SliceTo(Oversampled(msw, samples), samples - 1)

-----------------------------------------------------------------------------
(* Sections. *)

\* enum Section
AfskBytes(afsk_bytes) == [tag |-> "AfskBytes", afsk_bytes |-> afsk_bytes]
Silence(seconds) == [tag |-> "Silence", seconds |-> seconds]
Tone(msw) == [tag |-> "Tone", msw |-> msw]
Audio(audio) == [tag |-> "Audio", audio |-> audio]

\* afsk_bytes.iter().flat_map(|afsk_byte| afsk_byte.bits)
RECURSIVE FlatBits(_)
FlatBits(afsk_bytes) ==
    IF afsk_bytes = <<>> THEN <<>>
    ELSE Head(afsk_bytes).bits \o FlatBits(Tail(afsk_bytes))

\* let sinewave: MultiSineWave = afsk_bit.into(), for every bit in order
BitSegments(afsk_bytes) ==
    LET bits == FlatBits(afsk_bytes)
    IN  [k \in 1..Len(bits) |-> MswFromBit(bits[k])]

\* .flat_map(|msw| msw.generate_samples(sample_rate)).collect(), over msws[lo..hi]
\* (the concatenation is split in halves to keep the evaluation shallow)
RECURSIVE FlatSamplesRange(_, _, _, _)
FlatSamplesRange(msws, lo, hi, sample_rate) ==
    IF lo > hi THEN [ok |-> TRUE, data |-> <<>>]
    ELSE IF lo = hi THEN generate_samples(msws[lo], sample_rate)
    ELSE LET mid == (lo + hi) \div 2
             left == FlatSamplesRange(msws, lo, mid, sample_rate)
             right == FlatSamplesRange(msws, mid + 1, hi, sample_rate)
         IN  [ok |-> left.ok /\ right.ok, data |-> left.data \o right.data]

FlatSamples(msws, sample_rate) == FlatSamplesRange(msws, 1, Len(msws), sample_rate)

\* Section::render
SectionRender(section, sample_rate) ==
    CASE section.tag = "Silence" ->
           [ok |-> TRUE,
            data |-> [i \in 1..FloorSamples(sample_rate, section.seconds) |->
                          ZeroSample]]
      [] section.tag = "Audio" -> [ok |-> TRUE, data |-> section.audio]
      [] section.tag = "Tone" -> generate_samples(section.msw, sample_rate)
      [] section.tag = "AfskBytes" ->
           FlatSamples(BitSegments(section.afsk_bytes), sample_rate)

\* EasWarning::render: sections.iter().flat_map(|s| s.render(sample_rate)).collect()
RECURSIVE EasRender(_, _)
EasRender(secs, sample_rate) ==
    IF secs = <<>> THEN [ok |-> TRUE, data |-> <<>>]
    ELSE LET first == SectionRender(Head(secs), sample_rate)
             rest == EasRender(Tail(secs), sample_rate)
         IN  [ok |-> first.ok /\ rest.ok, data |-> first.data \o rest.data]

-----------------------------------------------------------------------------
(* EasWarning. *)

NoWarning == [ok |-> FALSE, header |-> NoHeader, attention_signal |-> None]

\* EasWarning::new: the unwrap of single(9.0) / combined(9.0); ok = FALSE is its panic
EasWarningNew(h, attsig_combined) ==
    LET attention_signal == IF ~attsig_combined
                            THEN AttentionSingle(NewAttentionSeconds)
                            ELSE AttentionCombined(NewAttentionSeconds)
    IN  IF attention_signal.some
        THEN [ok |-> TRUE, header |-> h, attention_signal |-> attention_signal]
        ELSE NoWarning

\* Option<Vec<f32>>
NoMessage == [some |-> FALSE, val |-> <<>>]
SomeMessage(samples) == [some |-> TRUE, val |-> samples]

\* ConstructHead with the third burst left out
ConstructHeadTwoBursts(w) ==
    LET h == HeaderRender(w.header)
    IN  <<AfskBytes(h), Silence(1 * TicksPerSecond), AfskBytes(h)>>

\* the three header bursts that open the section list of EasWarning::construct
ConstructHead(w) ==
    LET h == HeaderRender(w.header)
    IN  <<AfskBytes(h), Silence(1 * TicksPerSecond),
          AfskBytes(h), Silence(1 * TicksPerSecond),
          AfskBytes(h)>>

\* ConstructBody with the attention tone pushed whenever there is a message
ConstructBodyIgnoringCritical(w, msg, crit) ==
    IF msg.some
    THEN <<Silence(2 * TicksPerSecond), Tone(MswFromAttention(w.attention_signal)),
           Silence(4 * TicksPerSecond), Audio(msg.val)>>
    ELSE <<>>

\* ConstructBody with the attention tone pushed outside the `if let Some(message)`
ConstructBodyToneWithoutMessage(w, msg, crit) ==
    (IF crit
     THEN <<Silence(2 * TicksPerSecond), Tone(MswFromAttention(w.attention_signal))>>
     ELSE <<>>)
    \o (IF msg.some THEN <<Silence(4 * TicksPerSecond), Audio(msg.val)>> ELSE <<>>)

\* the `if let Some(message) = message` block of EasWarning::construct
ConstructBody(w, msg, crit) ==
    IF msg.some
    THEN (IF crit
          THEN <<Silence(2 * TicksPerSecond),
                 Tone(MswFromAttention(w.attention_signal))>>
          ELSE <<>>)
         \o <<Silence(4 * TicksPerSecond), Audio(msg.val)>>
    ELSE <<>>

\* ConstructFoot with a trailing Silence pushed after the third marker
ConstructFootTrailingSilence ==
    <<Silence(2 * TicksPerSecond), AfskBytes(tail),
      Silence(1 * TicksPerSecond), AfskBytes(tail),
      Silence(1 * TicksPerSecond), AfskBytes(tail),
      Silence(1 * TicksPerSecond)>>

\* the end-of-message bursts that close the section list of EasWarning::construct
ConstructFoot ==
    <<Silence(2 * TicksPerSecond), AfskBytes(tail),
      Silence(1 * TicksPerSecond), AfskBytes(tail),
      Silence(1 * TicksPerSecond), AfskBytes(tail)>>

\* the section list EasWarning::construct builds
ConstructSections(w, msg, crit) ==
    ConstructHead(w) \o ConstructBody(w, msg, crit) \o ConstructFoot

-----------------------------------------------------------------------------
(* Inputs. *)

EventCodes == {<<82, 87, 84>>, <<73, 70, 87>>}            \* "RWT", "IFW"
PurgeTimes == {<<48, 48, 49, 53>>}                        \* "0015"
LocationPool ==
    << <<48, 52, 56, 49, 48, 48>>,                        \* "048100"
       <<48, 56, 50, 54, 50, 48>>,                        \* "082620"
       <<48, 48, 48, 48, 48, 48>> >>                      \* "000000"
Callsigns ==
    { <<87, 68, 65, 70, 47, 70, 77, 32>>,                 \* "WDAF/FM "
      <<69, 67, 45, 71, 67, 45, 67, 65>>,                 \* "EC-GC-CA"
      <<45, 45, 45, 45, 45, 45, 45, 45>> }                \* "--------"
IssueTimes ==
    { [ordinal |-> 1, hour |-> 0, minute |-> 0],
      [ordinal |-> 59, hour |-> 9, minute |-> 5],
      [ordinal |-> 366, hour |-> 23, minute |-> 59] }

\* n location codes, cycling through the pool from offset s
CodeList(n, s) == [i \in 1..n |-> LocationPool[((i + s) % 3) + 1]]
CodeLists == {CodeList(n, 0) : n \in 0..MaxCodes}

\* durations in steps of a tenth of a second
Durations == {t * (TicksPerSecond \div 10) : t \in 0..MaxTenths}

RECURSIVE SeqsUpTo(_, _)
SeqsUpTo(S, n) ==
    IF n = 0 THEN {<<>>}
    ELSE LET shorter == SeqsUpTo(S, n - 1)
         IN  shorter \cup {Append(q, x) : q \in shorter, x \in S}

BytePool == {0, 65, 171, 255}
ByteStrings == SeqsUpTo(BytePool, MaxBytes)

\* 521 Hz is the lowest rate with one sample in a 1.92 ms bit, 1042 Hz with two
SampleRates == {0, 1, 2, 521, 1042}

\* construct is run at rates with no sample, with one and with two samples in a bit
WarnSampleRates == {0, 1, 521, 1042}

\* a message of n samples, no two neighbours alike
MessageOf(n) == [i \in 1..n |-> <<"pcm", IF i % 2 = 1 THEN i ELSE -i>>]
Messages == {NoMessage} \cup {SomeMessage(MessageOf(n)) : n \in 0..MaxMsgLen}

\* the warnings EasWarning::new makes of headers with few location codes
WarnHeaders ==
    {BuildHeaderValue(org, <<82, 87, 84>>, LocationCodesSetter(CodeList(n, 0)).val,
                      <<48, 48, 49, 53>>,
                      [ordinal |-> 59, hour |-> 9, minute |-> 5],
                      <<69, 67, 45, 71, 67, 45, 67, 65>>) :
        org \in {"Civ", "Eas"}, n \in 0..MaxWarnCodes}
Warnings == {EasWarningNew(h, c) : h \in WarnHeaders, c \in BOOLEAN}

-----------------------------------------------------------------------------
(* The state machine: one action per call of the library. *)

Blank ==
    /\ codesIn = <<>>
    /\ buildResult = [ok |-> FALSE, val |-> <<>>]
    /\ header = NoHeader
    /\ rendered = <<>>
    /\ attnArg = [kind |-> "None", seconds |-> 0]
    /\ attnResult = None
    /\ tone = [seconds |-> 0, frequencies |-> <<>>]
    /\ byteIn = 0
    /\ afskByte = DefaultAfskByte
    /\ bytesIn = <<>>
    /\ sampleRate = 0
    /\ message = NoMessage
    /\ critical = FALSE
    /\ sections = <<>>
    /\ segments = <<>>
    /\ panicked = FALSE
    /\ output = <<>>

Init ==
    /\ pc = "start"
    /\ warning = NoWarning
    /\ Blank

\* Header::builder()...location_codes(codes)?...build()
BuildHeader(org, event, codes, purge, time, callsign) ==
    /\ pc = "start"
    /\ codesIn' = codes
    /\ LET r == LocationCodesSetter(codes)
       IN  /\ buildResult' = r
           /\ IF r.ok
              THEN /\ header' = BuildHeaderValue(org, event, r.val, purge, time, callsign)
                   /\ pc' = "built"
              ELSE /\ header' = header
                   /\ pc' = "build_err"
    /\ UNCHANGED <<rendered, warning, attnArg, attnResult, tone, byteIn, afskByte, bytesIn,
                   sampleRate, message, critical, sections, segments, panicked,
                   output>>

\* header.render()
RenderHeader ==
    /\ pc = "built"
    /\ rendered' = HeaderRender(header)
    /\ pc' = "rendered"
    /\ UNCHANGED <<codesIn, buildResult, header, warning, attnArg, attnResult, tone,
                   byteIn, afskByte, bytesIn, sampleRate, message, critical, sections,
                   segments, panicked, output>>

\* EasWarning::new(header, attsig_combined)
NewWarning(attsig_combined) ==
    /\ pc = "built"
    /\ LET w == EasWarningNew(header, attsig_combined)
       IN  /\ warning' = w
           /\ panicked' = ~w.ok
           /\ pc' = IF w.ok THEN "warned" ELSE "panicked"
    /\ attnArg' = [kind |-> IF attsig_combined THEN "combined" ELSE "single",
                   seconds |-> NewAttentionSeconds]
    /\ UNCHANGED <<codesIn, buildResult, header, rendered, attnResult, tone, byteIn,
                   afskByte, bytesIn, sampleRate, message, critical, sections, segments,
                   output>>

\* AttentionSignal::single(seconds)
CallSingle(seconds) ==
    /\ pc = "start"
    /\ attnArg' = [kind |-> "single", seconds |-> seconds]
    /\ attnResult' = AttentionSingle(seconds)
    /\ pc' = "attn"
    /\ UNCHANGED <<codesIn, buildResult, header, rendered, warning, tone, byteIn,
                   afskByte, bytesIn, sampleRate, message, critical, sections, segments,
                   panicked, output>>

\* AttentionSignal::combined(seconds)
CallCombined(seconds) ==
    /\ pc = "start"
    /\ attnArg' = [kind |-> "combined", seconds |-> seconds]
    /\ attnResult' = AttentionCombined(seconds)
    /\ pc' = "attn"
    /\ UNCHANGED <<codesIn, buildResult, header, rendered, warning, tone, byteIn,
                   afskByte, bytesIn, sampleRate, message, critical, sections, segments,
                   panicked, output>>

\* let msw: MultiSineWave = attention_signal.into()
ToneFromAttention ==
    /\ pc = "attn"
    /\ attnResult.some
    /\ tone' = MswFromAttention(attnResult)
    /\ pc' = "tone"
    /\ UNCHANGED <<codesIn, buildResult, header, rendered, warning, attnArg,
                   attnResult, byteIn, afskByte, bytesIn, sampleRate, message, critical,
                   sections, segments, panicked, output>>

\* let afsk_byte: AfskByte = byte.into()
ConvertByte(byte) ==
    /\ pc = "start"
    /\ byteIn' = byte
    /\ afskByte' = AfskByteFromU8(byte)
    /\ pc' = "afsk"
    /\ UNCHANGED <<codesIn, buildResult, header, rendered, warning, attnArg,
                   attnResult, tone, bytesIn, sampleRate, message, critical, sections,
                   segments, panicked, output>>

\* Section::AfskBytes(bytes.map(|b| b.into())).render(sample_rate)
RenderAfskBytes(bytes, sample_rate) ==
    /\ pc = "start"
    /\ LET section == AfskBytes(AfskBytesOf(bytes))
           r == SectionRender(section, sample_rate)
       IN  /\ sections' = <<section>>
           /\ segments' = BitSegments(section.afsk_bytes)
           /\ panicked' = ~r.ok
           /\ output' = r.data
    /\ bytesIn' = bytes
    /\ sampleRate' = sample_rate
    /\ pc' = "afsk_rendered"
    /\ UNCHANGED <<codesIn, buildResult, header, rendered, warning, attnArg,
                   attnResult, tone, byteIn, afskByte, message, critical>>

\* warning.construct(sample_rate, message, critical)
Construct(sample_rate, msg, crit) ==
    /\ pc = "warned"
    /\ sampleRate' = sample_rate
    /\ message' = msg
    /\ critical' = crit
    /\ LET secs == ConstructSections(warning, msg, crit)
           r == EasRender(secs, sample_rate)
       IN  /\ sections' = secs
           /\ panicked' = ~r.ok
           /\ output' = r.data
    /\ pc' = "constructed"
    /\ UNCHANGED <<codesIn, buildResult, header, rendered, warning, attnArg,
                   attnResult, tone, byteIn, afskByte, bytesIn, segments>>

Next ==
    \/ \E org \in OriginatorCodes, event \in EventCodes, codes \in CodeLists,
          purge \in PurgeTimes, time \in IssueTimes, callsign \in Callsigns :
          BuildHeader(org, event, codes, purge, time, callsign)
    \/ RenderHeader
    \/ \E c \in BOOLEAN : NewWarning(c)
    \/ \E d \in Durations : CallSingle(d)
    \/ \E d \in Durations : CallCombined(d)
    \/ ToneFromAttention
    \/ \E b \in 0..255 : ConvertByte(b)
    \/ \E bytes \in ByteStrings, sr \in SampleRates : RenderAfskBytes(bytes, sr)

\* building headers, the attention signal and AFSK bytes
Spec == Init /\ [][Next]_vars

\* a warning built by EasWarning::new out of a header with few location codes
InitWarning ==
    /\ pc = "warned"
    /\ warning \in Warnings
    /\ Blank

NextWarning ==
    \E sr \in WarnSampleRates, msg \in Messages, crit \in BOOLEAN :
        Construct(sr, msg, crit)

\* constructing the sample stream of a warning
SpecWarning == InitWarning /\ [][NextWarning]_vars

-----------------------------------------------------------------------------
(* What the claims are stated with. *)

\* the u8 an AfskByte stands for: bit k (least significant first) is 1 for a Mark
RECURSIVE BitsValue(_, _)
BitsValue(bits, k) ==
    IF k > Len(bits) THEN 0
    ELSE (IF bits[k] = "Mark" THEN 2 ^ (k - 1) ELSE 0) + BitsValue(bits, k + 1)

ByteOf(afsk_byte) == BitsValue(afsk_byte.bits, 1)

BytesOf(afsk_bytes) == [i \in 1..Len(afsk_bytes) |-> ByteOf(afsk_bytes[i])]

\* the number a string of ASCII decimal digits spells; -1 when one is no digit
RECURSIVE DecimalValue(_)
DecimalValue(digits) ==
    IF digits = <<>> THEN 0
    ELSE LET last == digits[Len(digits)]
             front == DecimalValue(SubSeq(digits, 1, Len(digits) - 1))
         IN  IF last < 48 \/ last > 57 \/ front < 0 THEN -1
             ELSE 10 * front + (last - 48)

-----------------------------------------------------------------------------
(* C1 *)

\* C1: Header::render returns 16 bytes 0xAB, "ZCZC-", the 3 originator bytes, "-",
\* the 3 event-code bytes, "-" and the 6 bytes of each location code in the given
\* order, "+", the 4 purge-time bytes, "-", the 7 issue-time digits (day of year,
\* hour, minute), "-", the 8 callsign bytes with every "-" replaced by "\" and every
\* other byte unchanged, and a final "-": 51 + 7 * (number of location codes) bytes.
\* The 3 originator bytes are those to_afsk_bytes gives (C2 is about their spelling).
C1_HeaderRenderLayout ==
    pc = "rendered" =>
        LET out(i) == ByteOf(rendered[i])
            slice(from, to) == [i \in 1..(to - from + 1) |-> out(from + i - 1)]
            n == Len(header.location_codes)
            base == 28 + 7 * n
        IN  /\ Len(rendered) = 51 + 7 * n
            /\ \A i \in 1..16 : out(i) = 171
            /\ slice(17, 21) = <<90, 67, 90, 67, 45>>
            /\ slice(22, 24) = BytesOf(to_afsk_bytes(header.originator_code))
            /\ out(25) = 45
            /\ slice(26, 28) = header.event_code
            /\ \A k \in 1..n :
                   /\ out(22 + 7 * k) = 45
                   /\ slice(23 + 7 * k, 28 + 7 * k) = header.location_codes[k]
            /\ out(base + 1) = 43
            /\ slice(base + 2, base + 5) = header.purge_time
            /\ out(base + 6) = 45
            /\ DecimalValue(slice(base + 7, base + 9)) = header.time_of_issue.ordinal
            /\ DecimalValue(slice(base + 10, base + 11)) = header.time_of_issue.hour
            /\ DecimalValue(slice(base + 12, base + 13)) = header.time_of_issue.minute
            /\ out(base + 14) = 45
            /\ \A j \in 1..8 :
                   out(base + 14 + j) =
                       IF header.callsign[j] = 45 THEN 92 ELSE header.callsign[j]
            /\ out(base + 23) = 45

\* a rendered header with 31 location codes and a callsign holding "-"
C1_Witness ==
    /\ pc = "rendered"
    /\ Len(header.location_codes) = 31
    /\ \E j \in 1..8 : header.callsign[j] = 45
    /\ Len(rendered) = 268

-----------------------------------------------------------------------------
(* C2 *)

\* the protocol code each variant is named after
ProtocolCode(org) ==
    CASE org = "Pep" -> <<80, 69, 80>>   \* "PEP"
      [] org = "Civ" -> <<67, 73, 86>>   \* "CIV"
      [] org = "Wxr" -> <<87, 88, 82>>   \* "WXR"
      [] org = "Eas" -> <<69, 65, 83>>   \* "EAS"
      [] org = "Ean" -> <<69, 65, 78>>   \* "EAN"

\* C2: every originator code renders in the header as the 3 ASCII bytes of its own
\* protocol code (Pep "PEP", Civ "CIV", Wxr "WXR", Eas "EAS", Ean "EAN"), and no two
\* variants render alike.
C2_OriginatorSpelling ==
    pc = "rendered" =>
        LET slot == BytesOf(SubSeq(rendered, 22, 24))
        IN  /\ slot = ProtocolCode(header.originator_code)
            /\ \A other \in OriginatorCodes \ {header.originator_code} :
                   slot # BytesOf(to_afsk_bytes(other))

-----------------------------------------------------------------------------
(* C7 *)

\* bit k (0 = least significant) of a byte
BitOfByte(byte, k) == (byte \div (2 ^ k)) % 2

\* C7: a byte converts to exactly 8 bits, bit k (least significant first) Mark when
\* bit k of the byte is 1 and Space when it is 0; a rendered byte string gives one
\* tone segment per bit, in byte order and then bit order, none merged or dropped,
\* each 1.92 ms long with 4 cycles for a Mark and 3 for a Space, and each segment's
\* samples appear at its place in the output.
C7_BitsAndSegments ==
    /\ pc = "afsk" =>
           /\ Len(afskByte.bits) = 8
           /\ \A k \in 0..7 :
                  afskByte.bits[k + 1] =
                      IF BitOfByte(byteIn, k) = 1 THEN "Mark" ELSE "Space"
    /\ pc = "afsk_rendered" =>
           LET perBit == (sampleRate * 192) \div 100000
           IN  /\ Len(segments) = 8 * Len(bytesIn)
               /\ ~panicked
               /\ Len(output) = Len(segments) * perBit
               /\ \A j \in 1..Len(bytesIn) : \A k \in 0..7 :
                      LET m == 8 * (j - 1) + k + 1
                          c == IF BitOfByte(bytesIn[j], k) = 1 THEN 4 ELSE 3
                      IN  /\ segments[m].seconds = 192
                          /\ Len(segments[m].frequencies) = 1
                          /\ segments[m].frequencies[1][1] * 192
                                 = c * 100000 * segments[m].frequencies[1][2]
                          /\ \A i \in 0..(perBit - 1) :
                                 output[(m - 1) * perBit + i + 1] =
                                     IF i = 0 THEN <<"pcm", 0>>
                                     ELSE <<"sin", i, perBit, << <<c, 1>> >> >>

\* the two bytes 'A', 0xAB rendered at two samples a bit: 16 segments, 32 samples
C7_Witness ==
    /\ pc = "afsk_rendered"
    /\ bytesIn = <<65, 171>>
    /\ sampleRate = 1042
    /\ Len(segments) = 16
    /\ Len(output) = 32

-----------------------------------------------------------------------------
(* C8 *)

\* C8: building a Header succeeds exactly when the list of location codes has at
\* most 31 entries; on success the stored list is the given list, unchanged in
\* order and length; on failure an error is returned, no Header is built, and the
\* list is not cut down to 31.
C8_LocationCodesLimit ==
    pc \in {"built", "build_err"} =>
        /\ buildResult.ok <=> Len(codesIn) <= 31
        /\ buildResult.ok =>
               /\ pc = "built"
               /\ buildResult.val = codesIn
               /\ header.location_codes = codesIn
        /\ ~buildResult.ok =>
               /\ pc = "build_err"
               /\ buildResult.val = <<>>
               /\ header = NoHeader

\* the builder has refused a list of 32 location codes
C8_Witness ==
    /\ pc = "build_err"
    /\ Len(codesIn) = 32
    /\ ~buildResult.ok

-----------------------------------------------------------------------------
(* C9 *)

\* C9: single(d) and combined(d) return None exactly when d < 8.0; otherwise
\* SingleTone(d) and CombinedTone(d) with d unchanged; EasWarning::new, which
\* passes 9.0, never panics on its unwrap, whichever attsig_combined is.
C9_AttentionDuration ==
    /\ pc \in {"attn", "tone"} =>
           /\ attnResult.some <=> ~(attnArg.seconds < 800000)
           /\ attnResult.some =>
                  /\ attnResult.seconds = attnArg.seconds
                  /\ attnResult.kind = IF attnArg.kind = "single"
                                       THEN "SingleTone" ELSE "CombinedTone"
    /\ pc # "panicked"
    /\ pc = "warned" =>
           /\ ~panicked
           /\ warning.ok
           /\ warning.header = header
           /\ warning.attention_signal =
                  [some |-> TRUE,
                   kind |-> IF attnArg.kind = "single"
                            THEN "SingleTone" ELSE "CombinedTone",
                   seconds |-> 900000]

\* single(8.0) has returned SingleTone(8.0)
C9_Witness ==
    /\ pc = "attn"
    /\ attnArg = [kind |-> "single", seconds |-> 800000]
    /\ attnResult = [some |-> TRUE, kind |-> "SingleTone", seconds |-> 800000]

-----------------------------------------------------------------------------
(* C3 *)

\* C3: whatever the message and the critical flag, the section list of construct
\* starts with header bytes, Silence(1.0 s), header bytes, Silence(1.0 s), header
\* bytes; the three are Header::render of the warning's header, and nothing comes
\* before the first.
C3_ThreeHeaderBursts ==
    pc = "constructed" =>
        LET h == [tag |-> "AfskBytes", afsk_bytes |-> HeaderRender(warning.header)]
            gap == [tag |-> "Silence", seconds |-> 100000]
        IN  /\ Len(sections) >= 5
            /\ SubSeq(sections, 1, 5) = <<h, gap, h, gap, h>>

\* a construct call without a message that was not flagged critical
C3_Witness ==
    /\ pc = "constructed"
    /\ ~message.some
    /\ ~critical
    /\ Len(sections) = 11
    /\ sections[5].tag = "AfskBytes"

-----------------------------------------------------------------------------
(* C4 *)

\* where the Tone sections are
TonePlaces == {i \in 1..Len(sections) : sections[i].tag = "Tone"}

\* the tone of the warning's own attention signal: its duration, and 1050 Hz for a
\* single tone, 853 Hz and 960 Hz for a combined one
OwnTone ==
    [tag |-> "Tone",
     msw |-> [seconds |-> warning.attention_signal.seconds,
              frequencies |-> IF warning.attention_signal.kind = "SingleTone"
                              THEN << <<1050, 1>> >>
                              ELSE << <<853, 1>>, <<960, 1>> >>]]

\* C4 as claimed: the attention tone is there exactly when critical is true and a
\* message is present; it comes after the third header, right after a Silence of
\* 1.0 s and right before a Silence of 1.0 s, and carries the warning's own signal.
C4_AsClaimed ==
    pc = "constructed" =>
        /\ (TonePlaces # {}) <=> (critical /\ message.some)
        /\ \A i \in TonePlaces :
               /\ i > 5
               /\ i < Len(sections)
               /\ sections[i - 1] = [tag |-> "Silence", seconds |-> 100000]
               /\ sections[i + 1] = [tag |-> "Silence", seconds |-> 100000]
               /\ sections[i] = OwnTone

\* C4 (amended): the attention tone is there exactly when critical is true and a
\* message is present; it is then the one Tone section, comes after the third
\* header, right after a Silence of 2.0 s and right before the Silence of 4.0 s that
\* precedes the message audio, and carries the warning's own signal (9.0 s).
C4_AttentionTone ==
    pc = "constructed" =>
        /\ (TonePlaces # {}) <=> (critical /\ message.some)
        /\ \A i \in TonePlaces :
               /\ i = 7
               /\ i < Len(sections)
               /\ sections[i - 1] = [tag |-> "Silence", seconds |-> 200000]
               /\ sections[i + 1] = [tag |-> "Silence", seconds |-> 400000]
               /\ sections[i + 2].tag = "Audio"
               /\ sections[i] = OwnTone
               /\ warning.attention_signal.seconds = 900000

\* a critical warning with a message: the combined tone is the 7th section
C4_Witness ==
    /\ pc = "constructed"
    /\ critical
    /\ message.some
    /\ 7 \in TonePlaces
    /\ Len(sections[7].msw.frequencies) = 2

-----------------------------------------------------------------------------
(* C5 *)

\* the end-of-message marker: 16 bytes 0xAB and "NNNN"
IsMarker(section) ==
    /\ section.tag = "AfskBytes"
    /\ BytesOf(section.afsk_bytes) =
           [i \in 1..20 |-> IF i <= 16 THEN 171 ELSE 78]

\* where the first end-of-message marker is (0: nowhere)
FirstMarker ==
    LET places == {i \in 1..Len(sections) : IsMarker(sections[i])}
    IN  IF places = {} THEN 0 ELSE CHOOSE i \in places : \A j \in places : i <= j

\* only silence and markers from the first marker on
OnlyFooterAfterFirstMarker ==
    /\ FirstMarker > 0
    /\ \A i \in FirstMarker..Len(sections) :
           IsMarker(sections[i]) \/ sections[i].tag = "Silence"

\* C5 as claimed: the section list ends with Silence(1.0 s), marker, Silence(1.0 s),
\* marker, Silence(1.0 s), marker and a trailing Silence; the markers are identical
\* and no header, tone or audio section comes after the first marker.
C5_AsClaimed ==
    pc = "constructed" =>
        LET n == Len(sections)
            gap == [tag |-> "Silence", seconds |-> 100000]
        IN  /\ n >= 7
            /\ sections[n - 6] = gap
            /\ IsMarker(sections[n - 5])
            /\ sections[n - 4] = gap
            /\ IsMarker(sections[n - 3])
            /\ sections[n - 2] = gap
            /\ IsMarker(sections[n - 1])
            /\ sections[n].tag = "Silence"
            /\ OnlyFooterAfterFirstMarker

\* C5 (amended): the section list ends with Silence(2.0 s), marker, Silence(1.0 s),
\* marker, Silence(1.0 s), marker, and the third marker is the last section (no
\* trailing Silence); the markers are identical and no header, tone or audio
\* section comes after the first marker.
C5_Footer ==
    pc = "constructed" =>
        LET n == Len(sections)
            gap == [tag |-> "Silence", seconds |-> 100000]
        IN  /\ n >= 6
            /\ sections[n - 5] = [tag |-> "Silence", seconds |-> 200000]
            /\ IsMarker(sections[n - 4])
            /\ sections[n - 3] = gap
            /\ IsMarker(sections[n - 2])
            /\ sections[n - 1] = gap
            /\ IsMarker(sections[n])
            /\ FirstMarker = n - 4
            /\ OnlyFooterAfterFirstMarker

\* a constructed warning with a message, whose 15 sections end with a marker
C5_Witness ==
    /\ pc = "constructed"
    /\ message.some
    /\ critical
    /\ Len(sections) = 15
    /\ IsMarker(sections[15])
    /\ FirstMarker = 11

-----------------------------------------------------------------------------
(* C6 *)

\* the section list construct builds for this warning when it is critical and has
\* a message of one sample
FullList == ConstructSections(warning, SomeMessage(<<<<"pcm", 1>>>>), TRUE)

\* a list without the places in `gone`
RECURSIVE Without(_, _, _)
Without(list, gone, i) ==
    IF i > Len(list) THEN <<>>
    ELSE (IF i \in gone THEN <<>> ELSE <<list[i]>>) \o Without(list, gone, i + 1)

\* where the Audio section of a list is
AudioPlace(list) == CHOOSE i \in 1..Len(list) : list[i].tag = "Audio"

\* C6 as claimed: with critical = true and no message, or an empty one, the section
\* list is the one for critical = true with a non-empty message minus exactly the
\* Audio section and the Silence before it, so the attention tone is still there.
C6_AsClaimed ==
    (pc = "constructed" /\ critical /\ (~message.some \/ message.val = <<>>)) =>
        /\ sections =
               Without(FullList, {AudioPlace(FullList) - 1, AudioPlace(FullList)}, 1)
        /\ TonePlaces # {}

\* C6 (amended): with critical = true and no message (None), the section list is
\* the one for critical = true with a non-empty message minus the Audio section,
\* the Silence (4.0 s) before it, the attention Tone and the Silence (2.0 s) before
\* that: the three headers with their silences and the whole footer are still
\* there, the attention tone is not.  With a message that is present but empty
\* nothing is left out: the list is the one for a non-empty message, its Audio
\* section empty.
C6_NoMessage ==
    (pc = "constructed" /\ critical) =>
        /\ ~message.some =>
               /\ sections = Without(FullList, {6, 7, 8, 9}, 1)
               /\ {FullList[i].tag : i \in {6, 7, 8, 9}}
                      = {"Silence", "Tone", "Audio"}
               /\ AudioPlace(FullList) = 9
               /\ Len(sections) = 11
               /\ \A i \in 1..11 : sections[i].tag \in {"AfskBytes", "Silence"}
        /\ (message.some /\ message.val = <<>>) =>
               /\ Len(sections) = Len(FullList)
               /\ \A i \in 1..Len(sections) :
                      sections[i] = IF i = AudioPlace(FullList)
                                    THEN [tag |-> "Audio", audio |-> <<>>]
                                    ELSE FullList[i]

\* a critical warning constructed without a message: 11 sections, no tone
C6_Witness ==
    /\ pc = "constructed"
    /\ critical
    /\ ~message.some
    /\ Len(sections) = 11
    /\ TonePlaces = {}

-----------------------------------------------------------------------------
(* C10 *)

\* the length of a section's render, computed from the section alone
SectionLength(section) ==
    CASE section.tag = "Silence" -> (sampleRate * section.seconds) \div 100000
      [] section.tag = "Audio" -> Len(section.audio)
      [] section.tag = "Tone" -> (sampleRate * section.msw.seconds) \div 100000
      [] section.tag = "AfskBytes" ->
           Len(section.afsk_bytes) * 8 * ((sampleRate * 192) \div 100000)

\* the summed lengths of the sections before the k-th
RECURSIVE Offset(_)
Offset(k) == IF k <= 1 THEN 0 ELSE Offset(k - 1) + SectionLength(sections[k - 1])

\* the k-th section's samples, cut out of the output
Chunk(k) == SubSeq(output, Offset(k) + 1, Offset(k) + SectionLength(sections[k]))

\* C10: at every sample rate, also one that leaves a segment 0 or 1 samples,
\* construct ends without a panic and its output is the sections' renders in order:
\* as long as the sum of floor(sample_rate * s) for a Silence(s), the message length
\* for Audio, floor(sample_rate * duration) for a Tone and 8 * floor(sample_rate *
\* 0.00192) a byte; a silence is zeros, the audio is the message as given, a tone of
\* N samples is its N samples in index order (none when N = 0), and no sample is
\* the not-a-number of a division by zero.
C10_OutputIsConcatenation ==
    pc = "constructed" =>
        /\ ~panicked
        /\ Len(output) = Offset(Len(sections) + 1)
        /\ \A i \in 1..Len(output) : output[i] # <<"nan">>
        /\ \A k \in 1..Len(sections) :
               LET n == SectionLength(sections[k])
                   chunk == Chunk(k)
               IN  /\ Len(chunk) = n
                   /\ sections[k].tag = "Silence" =>
                          \A i \in 1..n : chunk[i] = <<"pcm", 0>>
                   /\ sections[k].tag = "Audio" =>
                          chunk = message.val
                   /\ sections[k].tag = "Tone" =>
                          /\ n >= 1 => chunk[1] = <<"pcm", 0>>
                          /\ \A i \in 2..n :
                                 /\ chunk[i][1] = "sin"
                                 /\ chunk[i][2] = i - 1
                                 /\ chunk[i][3] = n
                   /\ sections[k].tag = "AfskBytes" =>
                          LET perBit == (sampleRate * 192) \div 100000
                          IN  \A i \in 1..n :
                                  (i - 1) % perBit = 0 <=> chunk[i] = <<"pcm", 0>>

\* a critical warning with a 2-sample message constructed at 1 Hz: every bit has no
\* sample, every second of silence one, the 9 s tone nine
C10_Witness ==
    /\ pc = "constructed"
    /\ sampleRate = 1
    /\ critical
    /\ Len(message.val) = 2
    /\ Len(sections) = 15
    /\ Len(output) = 23

=============================================================================
